---- MODULE Spec2Model ----
(***************************************************************************)
(* Model of internal/command/flag.go: the three list flag values           *)
(* (envFlag, targetArchFlag, tagsFlag) with their Set and String methods,  *)
(* and newCommonFlags, which registers the shared options on the           *)
(* process-wide flag set.                                                  *)
(*                                                                         *)
(* A string is a sequence of one-character strings, so that strings.Split, *)
(* strings.TrimSpace and fmt.Sprint are computed character by character.   *)
(***************************************************************************)
EXTENDS Integers, Sequences, FiniteSets, TLC

\* ---------------------------------------------------------------- bounds
\* Longest raw argument handed to Set.
MaxLen == 3

\* Characters raw arguments are made of: a letter, the two separators the
\* code splits on, and a whitespace character.
Alphabet == {"a", "=", ",", " "}

\* Every raw argument of length 0..MaxLen.
Raws == UNION {[1..n -> Alphabet] : n \in 0..MaxLen}

\* ------------------------------------------------------- library functions
\* strings.Split(s, sep) for a one-character separator, computed character
\* by character: the pieces between the separators, always one more piece
\* than there are separators.
Split(s, sep) ==
  LET RECURSIVE F(_, _, _)
      F(i, cur, acc) ==
        IF i > Len(s) THEN Append(acc, cur)
        ELSE IF s[i] = sep THEN F(i + 1, <<>>, Append(acc, cur))
        ELSE F(i + 1, Append(cur, s[i]), acc)
  IN F(1, <<>>, <<>>)

\* unicode.IsSpace on the characters of the model.
WhiteSpace == {" ", "\t", "\n", "\r"}

\* strings.TrimSpace: drops leading and trailing white space.
TrimSpace(s) ==
  LET lead  == {i \in 1..Len(s) : \A j \in 1..i : s[j] \in WhiteSpace}
      first == Cardinality(lead) + 1
      trail == {i \in first..Len(s) : \A j \in i..Len(s) : s[j] \in WhiteSpace}
  IN SubSeq(s, first, Len(s) - Cardinality(trail))

\* fmt.Sprint of a []string: the elements separated by one space, in
\* square brackets.
Sprint(l) ==
  LET RECURSIVE G(_, _)
      G(i, acc) ==
        IF i > Len(l) THEN acc
        ELSE G(i + 1, (IF i = 1 THEN acc ELSE acc \o <<" ">>) \o l[i])
  IN G(1, <<"[">>) \o <<"]">>

\* ------------------------------------------------------------ error values
Nil == "nil"
ErrAlreadySet == "flag already set"
ErrMalformed == "env var must defined as KEY=VALUE or KEY="
\* Set has not been called on the flag yet.
NoCall == "no call"

\* ------------------------------------------------------- list flag values
Variants == {"env", "arch", "tags"}

\* A mutant of Reset that keeps the previous value (Set would append).
ResetKeep(l) == l

\* A mutant of Reset that clears only a value the length check lets pass
\* (the check placed before the reset).
ResetIfShort(l) == IF Len(l) > 1 THEN l ELSE <<>>

\* `*ef = []string{}`: the first statement of each Set.
Reset(l) == <<>>

\* A mutant of AppendVerbatim that trims each piece, as the other two
\* variants do.
AppendTrimming(l, value) ==
  LET pieces == Split(value, ",")
  IN l \o [i \in 1..Len(pieces) |-> TrimSpace(pieces[i])]

\* A mutant of AppendVerbatim that stops after the first piece that is not
\* KEY=VALUE.
AppendUntilInvalid(l, value) ==
  LET pieces == Split(value, ",")
      RECURSIVE A(_, _)
      A(i, acc) == IF i > Len(pieces) THEN acc
                   ELSE IF Len(Split(pieces[i], "=")) # 2
                        THEN Append(acc, pieces[i])
                        ELSE A(i + 1, Append(acc, pieces[i]))
  IN A(1, l)

\* envFlag.Set, the first loop: appends every piece of value as it is.
AppendVerbatim(l, value) == l \o Split(value, ",")

\* A mutant of AppendTrimmed that appends the pieces untrimmed.
AppendUntrimmed(l, value) == l \o Split(value, ",")

\* targetArchFlag.Set and tagsFlag.Set, the loop: appends every piece of
\* value with its surrounding white space trimmed.
AppendTrimmed(l, value) ==
  LET pieces == Split(value, ",")
  IN l \o [i \in 1..Len(pieces) |-> TrimSpace(pieces[i])]

\* A mutant of EnvEntryOk that accepts any entry with an '='.
EnvEntryOkLoose(v) == Len(Split(v, "=")) >= 2

\* envFlag.Set, the test of the second loop: `len(parts) != 2` negated.
EnvEntryOk(v) == Len(Split(v, "=")) = 2

\* A mutant of EnvValidate that looks at the first element only.
EnvValidateFirst(l) ==
  IF Len(l) > 0 /\ ~EnvEntryOk(l[1]) THEN ErrMalformed ELSE Nil

\* envFlag.Set, the second loop: the error of the first malformed element.
EnvValidate(l) ==
  IF \E i \in 1..Len(l) : ~EnvEntryOk(l[i]) THEN ErrMalformed ELSE Nil

\* envFlag.Set(value) on a flag holding ef: the new value and the error.
EnvSet(ef, value) ==
  LET ef0 == Reset(ef)
  IN IF Len(ef0) > 1 THEN [list |-> ef0, err |-> ErrAlreadySet]
     ELSE LET ef1 == AppendVerbatim(ef0, value)
          IN [list |-> ef1, err |-> EnvValidate(ef1)]

\* targetArchFlag.Set(value) on a flag holding af.
ArchSet(af, value) ==
  LET af0 == Reset(af)
  IN IF Len(af0) > 1 THEN [list |-> af0, err |-> ErrAlreadySet]
     ELSE [list |-> AppendTrimmed(af0, value), err |-> Nil]

\* tagsFlag.Set(value) on a flag holding tf.
TagsSet(tf, value) ==
  LET tf0 == Reset(tf)
  IN IF Len(tf0) > 1 THEN [list |-> tf0, err |-> ErrAlreadySet]
     ELSE [list |-> AppendTrimmed(tf0, value), err |-> Nil]

\* A mutant of String that leaves the last element out.
StringButLast(l) == Sprint(SubSeq(l, 1, Len(l) - 1))

\* envFlag.String, targetArchFlag.String, tagsFlag.String.
String(l) == Sprint(l)

\* --------------------------------------------------------- newCommonFlags
\* The four default computations of newCommonFlags, in the order it runs
\* them: defaultOutput, DefaultWorkDirHost, DefaultCacheDirHost,
\* DefaultIconHost.
DefaultSteps == <<"output", "workdir", "cachedir", "icon">>

FailErrs == {DefaultSteps[i] : i \in 1..Len(DefaultSteps)}

\* The options newCommonFlags registers on flagSet.
Options == {"app-id", "cache", "no-cache", "env", "icon", "image", "ldflags",
            "tags", "no-strip-debug", "output", "dir", "silent", "debug",
            "pull"}

\* The error newCommonFlags returns when the default computations in fails
\* fail: that of the first failing one, Nil when none fails.
FirstFailure(fails) ==
  IF fails = {} THEN Nil
  ELSE DefaultSteps[CHOOSE i \in 1..Len(DefaultSteps) :
                      /\ DefaultSteps[i] \in fails
                      /\ \A j \in 1..(i - 1) : DefaultSteps[j] \notin fails]

\* A mutant of Registration that registers the options declared before
\* "icon" ahead of computing the default icon.
RegistrationBeforeIcon(reg, e) ==
  IF e = Nil THEN reg \cup Options
  ELSE IF e = "icon" THEN reg \cup {"app-id", "cache", "no-cache", "env"}
  ELSE reg

\* The options on flagSet after newCommonFlags has returned e: the
\* registrations come after the last early return.
Registration(reg, e) == IF e = Nil THEN reg \cup Options ELSE reg

\* ------------------------------------------------------------------ state
VARIABLES
  variant,     \* the type of the list flag: "env", "arch" or "tags"
  list,        \* the value of the list flag
  err,         \* what the last Set on the flag returned
  raw,         \* the argument of the last Set on the flag
  prevLen,     \* the length of the flag's value when the last Set was
               \* called: 0, 1, or 2 for more than one element
  registered,  \* the options defined on flagSet
  ncfErr,      \* the error the last newCommonFlags returned
  ncfFlags,    \* the *CommonFlags the last newCommonFlags returned
  crashed      \* the process panicked

vars == <<variant, list, err, raw, prevLen, registered, ncfErr, ncfFlags,
          crashed>>

flagVars == <<variant, list, err, raw, prevLen>>
ncfVars == <<registered, ncfErr, ncfFlags, crashed>>

\* A declared list flag of one of the three types is empty; flagSet has no
\* option.
Init ==
  /\ variant \in Variants
  /\ list = <<>>
  /\ err = NoCall
  /\ raw = <<>>
  /\ prevLen = 0
  /\ registered = {}
  /\ ncfErr = NoCall
  /\ ncfFlags = "nil"
  /\ crashed = FALSE

\* The flag takes the outcome r of Set(value).
Took(r, value) ==
  /\ list' = r.list
  /\ err' = r.err
  /\ raw' = value
  /\ prevLen' = (IF Len(list) > 1 THEN 2 ELSE Len(list))
  /\ UNCHANGED <<variant, ncfVars>>

EnvSetCall ==
  /\ ~crashed
  /\ variant = "env"
  /\ \E value \in Raws : \E r \in {EnvSet(list, value)} : Took(r, value)

ArchSetCall ==
  /\ ~crashed
  /\ variant = "arch"
  /\ \E value \in Raws : \E r \in {ArchSet(list, value)} : Took(r, value)

TagsSetCall ==
  /\ ~crashed
  /\ variant = "tags"
  /\ \E value \in Raws : \E r \in {TagsSet(list, value)} : Took(r, value)

\* newCommonFlags, with the default computations in fails failing.  With
\* all of them succeeding, flagSet.StringVar panics on "app-id" when the
\* option is already defined.
NewCommonFlagsCall ==
  /\ ~crashed
  /\ \E fails \in SUBSET FailErrs :
       LET e == FirstFailure(fails) IN
         IF e = Nil /\ "app-id" \in registered
         THEN /\ crashed' = TRUE
              /\ UNCHANGED <<registered, ncfErr, ncfFlags>>
         ELSE /\ ncfErr' = e
              /\ ncfFlags' = (IF e = Nil THEN "flags" ELSE "nil")
              /\ registered' = Registration(registered, e)
              /\ UNCHANGED crashed
  /\ UNCHANGED flagVars

Next == EnvSetCall \/ ArchSetCall \/ TagsSetCall \/ NewCommonFlagsCall

Spec == Init /\ [][Next]_vars

\* ------------------------------------------------- vocabulary of the claims
\* The number of occurrences of the character c in s.
CountChar(s, c) == Cardinality({i \in 1..Len(s) : s[i] = c})

\* s contains exactly one '='.
OneEq(s) == CountChar(s, "=") = 1

\* The positions that delimit the comma-separated pieces of s.
PieceBounds(s) == {0, Len(s) + 1} \cup {i \in 1..Len(s) : s[i] = ","}

\* The k-th smallest element of the set of numbers B.
NthOf(B, k) == CHOOSE b \in B : Cardinality({c \in B : c < b}) = k - 1

\* The comma-separated pieces of s: what lies between consecutive bounds.
RawPieces(s) ==
  [k \in 1..(Cardinality(PieceBounds(s)) - 1) |->
     SubSeq(s, NthOf(PieceBounds(s), k) + 1, NthOf(PieceBounds(s), k + 1) - 1)]

\* The index of the first piece of s that does not contain exactly one '='
\* (0 when every piece does).
FirstInvalid(s) ==
  LET bad == {k \in 1..Len(RawPieces(s)) : ~OneEq(RawPieces(s)[k])}
  IN IF bad = {} THEN 0 ELSE CHOOSE k \in bad : \A j \in bad : k <= j

\* t is p without its leading and trailing white space.
IsTrimOf(t, p) ==
  /\ t # <<>> => (t[1] \notin WhiteSpace /\ t[Len(t)] \notin WhiteSpace)
  /\ \E i \in 0..(Len(p) - Len(t)) :
       /\ SubSeq(p, i + 1, i + Len(t)) = t
       /\ \A j \in 1..i : p[j] \in WhiteSpace
       /\ \A j \in (i + Len(t) + 1)..Len(p) : p[j] \in WhiteSpace

\* piece occurs in text at position pos.
OccursAt(text, piece, pos) ==
  /\ pos + Len(piece) - 1 <= Len(text)
  /\ SubSeq(text, pos, pos + Len(piece) - 1) = piece

RECURSIVE InOrderFrom(_, _, _, _)
\* The pieces k, k+1, ... occur in text one after the other, from position
\* from on.
InOrderFrom(pieces, text, k, from) ==
  IF k > Len(pieces) THEN TRUE
  ELSE \E pos \in from..Len(text) :
         /\ OccursAt(text, pieces[k], pos)
         /\ InOrderFrom(pieces, text, k + 1, pos + Len(pieces[k]))

\* What Set(value) gives on a freshly declared flag of type v.
SetOnFresh(v, value) ==
  CASE v = "env" -> EnvSet(<<>>, value)
    [] v = "arch" -> ArchSet(<<>>, value)
    [] v = "tags" -> TagsSet(<<>>, value)

\* ------------------------------------------------------------------ claims
\* C1: a Set called on a flag that holds two or more elements returns
\* the "flag already set" error.
C1_AlreadySetAfterMany ==
  (err # NoCall /\ prevLen = 2) => err = ErrAlreadySet

\* C2, as stated: every element of the env list contains exactly one '=',
\* in every state.
C2_EnvInvariantAlways ==
  variant = "env" => \A i \in 1..Len(list) : OneEq(list[i])

\* C2, amended: every element of the env list contains exactly one '='
\* unless the last Set returned the malformed-entry error.
C2_EnvInvariantUnlessMalformed ==
  (variant = "env" /\ err # ErrMalformed) =>
    \A i \in 1..Len(list) : OneEq(list[i])

C2_Witness ==
  variant = "env" /\ err = Nil /\ Len(list) = 2 /\ prevLen = 2

\* C3, as stated: after a Set that fails with the malformed-entry error the
\* env list holds the pieces up to and including the first invalid one, and
\* none after it.
C3_PartialUpToFirstInvalid ==
  (variant = "env" /\ err = ErrMalformed) =>
    list = SubSeq(RawPieces(raw), 1, FirstInvalid(raw))

\* C3, amended: after a Set that fails with the malformed-entry error the
\* env list holds every piece of the raw argument, in order, those after
\* the first invalid piece included.
C3_AllPiecesKept ==
  (variant = "env" /\ err = ErrMalformed) =>
    /\ Len(list) = Len(RawPieces(raw))
    /\ \A k \in 1..Len(list) : list[k] = RawPieces(raw)[k]

C3_Witness ==
  /\ variant = "env" /\ err = ErrMalformed
  /\ FirstInvalid(raw) = 2 /\ Len(list) = 3

\* C4: on a fresh env flag, Set returns the malformed-entry error exactly
\* when some piece of the raw argument does not contain exactly one '=';
\* otherwise it returns no error.
C4_MalformedIffBadPiece ==
  (variant = "env" /\ prevLen = 0 /\ err # NoCall) =>
    /\ err \in {Nil, ErrMalformed}
    /\ err = ErrMalformed <=>
         \E k \in 1..Len(RawPieces(raw)) : ~OneEq(RawPieces(raw)[k])

C4_Witness ==
  /\ variant = "env" /\ prevLen = 0 /\ err = ErrMalformed
  /\ CountChar(raw, "=") = 2 /\ CountChar(raw, ",") = 0

C6_TrimmedPieces ==
  (variant \in {"arch", "tags"} /\ prevLen = 0 /\ err # NoCall) =>
    /\ err = Nil
    /\ Len(list) = CountChar(raw, ",") + 1
    /\ \A k \in 1..Len(list) : IsTrimOf(list[k], RawPieces(raw)[k])

C6_Witness ==
  /\ variant = "tags" /\ prevLen = 0
  /\ raw = <<" ", "a", ",">> /\ list = << <<"a">>, <<>> >>

\* C7: a Set with a one-piece argument on a flag that holds one element is
\* not rejected as already set, and leaves the list holding that piece
\* alone.
C7_Replaces ==
  (prevLen = 1 /\ CountChar(raw, ",") = 0) =>
    /\ err # ErrAlreadySet
    /\ Len(list) = 1
    /\ IF variant = "env" THEN list[1] = raw ELSE IsTrimOf(list[1], raw)

C7_Witness ==
  prevLen = 1 /\ CountChar(raw, ",") = 0 /\ err = Nil /\ Len(list) = 1

\* C8: a newCommonFlags whose default computation fails returns a nil struct
\* and leaves flagSet as it was; flagSet only changes from no option to
\* all 14 options, on a call that returns no error.
C8_NoPartialRegistration ==
  [][/\ ncfErr' \in FailErrs => (ncfFlags' = "nil" /\ registered' = registered)
     /\ registered' # registered =>
          /\ ncfErr' = Nil /\ ncfFlags' = "flags"
          /\ registered = {} /\ registered' = Options
          /\ Cardinality(registered') = 14]_vars

C8_Witness ==
  ncfErr = "icon" /\ ncfFlags = "nil" /\ registered = {}

C10_HistoryIndependent ==
  err # NoCall => [list |-> list, err |-> err] = SetOnFresh(variant, raw)

C10_Witness ==
  prevLen = 2 /\ err = Nil /\ Len(list) = 1
====
